---- MODULE Spec2Model ----
(***************************************************************************)
(* keploy/pilot: the differential test-bench reconciler.                   *)
(*                                                                         *)
(* main.go and util.go each hold two variants of the program: the first    *)
(* uses the kYaml store and orders the test-bench collection by the        *)
(* "Keploy-Test-Id" request header (variant 1), the second uses the v2     *)
(* testdb store and orders both collections by Name (variant 2).  Both     *)
(* variants share compareSessions and swapFiles.                           *)
(*                                                                         *)
(* Strings (session identifiers, test-case names, header values) are       *)
(* sequences of character codes compared lexicographically, as Go's < on   *)
(* strings does.  File contents are sequences of bytes.  Go's 0-based      *)
(* index i is i+1 here.                                                    *)
(***************************************************************************)
EXTENDS Naturals, Sequences, FiniteSets, TLC

VARIABLES
  variant,        \* 1: kYaml variant (main.go 1-308), 2: testdb variant (main.go 310-584)
  mode,           \* "test" (-test-assert) or "mock" (-mock-assert)
  storeA,         \* pre-recorded root: session -> set of test-case records
  storeB,         \* test-bench root:   session -> set of test-case records
  fileA,          \* pre-recorded root: session -> content of mocks.yaml
  fileB,          \* test-bench root:   session -> content of mocks.yaml
  temp,           \* the temporary file of swapFiles: [exists, data]
  tsets1,         \* main's tsets1 (sorted in place by compareSessions)
  tsets2,         \* main's tsets2
  sessions,       \* main's sessions
  si,             \* position of the session loop, 1-based
  i,              \* position of the pair loop, 1-based
  readTcs1,       \* in-memory collection of root A for the current session
  readTcs2,       \* in-memory collection of root B for the current session
  content1,       \* swapFiles' content1
  content2,       \* swapFiles' content2
  testSetRes,     \* compareTestCases' per-session verdict
  passedOverall,  \* compareTestCases' overall verdict
  pc,             \* control position
  err,            \* the error the run logged before it ended ("none": no error)
  exitCode,       \* the process exit status, meaningful when pc = "done"
  reconLog,       \* what compareSessions logged
  origA,          \* history: storeA before the run
  origB,          \* history: storeB before the run
  origFileA,      \* history: fileA before the run
  origFileB,      \* history: fileB before the run
  listed1,        \* history: the first list compareSessions is called with (SpecSessions)
  listed2,        \* history: the second list compareSessions is called with (SpecSessions)
  aligned,        \* history: session -> the two ordered collections, as aligned
  ops,            \* history: the downstream operations performed, in order
  config,         \* the noise configuration source at configPath: [state, global, testsets]
  globalNoise,    \* compareTestCases' globalNoise (variant 2: noise.Global)
  testSetNoise,   \* compareTestCases' testSetNoise (variant 2: noise.Testsets)
  noiseErr,       \* whether GetNoiseFromConfig returned an error
  noiseConfig,    \* compareTestCases' noiseConfig: the mask of the current session
  arrangedB       \* session -> the arrangement sort.Slice gave root B's collection

vars == <<variant, mode, storeA, storeB, fileA, fileB, temp, tsets1, tsets2,
          sessions, si, i, readTcs1, readTcs2, content1, content2, testSetRes,
          passedOverall, pc, err, exitCode, reconLog, origA, origB, origFileA,
          origFileB, listed1, listed2, aligned, ops, config, globalNoise,
          testSetNoise, noiseErr, noiseConfig, arrangedB>>

(***************************************************************************)
(* Bounds and input domains                                                *)
(***************************************************************************)
\* Most test cases one session of one root holds.
MaxCases == 2

\* Longest session list handed to compareSessions in SpecSessions.
MaxList == 3

\* Longest fixture content in SpecSwap.
MaxContentLen == 2

\* Session identifiers: "a", "ab", "b".
ListIds == {<<1>>, <<1, 2>>, <<2>>}

\* The session directories a root of a full run may hold: "ab", "b".
RootIds == {<<1, 2>>, <<2>>}

\* Test-case names "1", "10", "2", in ascending order.
NameSeq == <<<<1>>, <<1, 0>>, <<2>>>>

Names == {NameSeq[k] : k \in 1..Len(NameSeq)}

\* Values of the Keploy-Test-Id header: absent (read as "") or "1".
Keys == {<<>>, <<1>>}

Bytes == {1, 2}

SeqsUpTo(S, n) == UNION {[1..k -> S] : k \in 0..n}

Contents == SeqsUpTo(Bytes, MaxContentLen)

(***************************************************************************)
(* Strings and sorting                                                     *)
(***************************************************************************)
RECURSIVE StrLess(_, _)
\* Go's a < b on strings: bytewise lexicographic.
StrLess(a, b) ==
  IF b = <<>> THEN FALSE
  ELSE IF a = <<>> THEN TRUE
  ELSE IF Head(a) # Head(b) THEN Head(a) < Head(b)
  ELSE StrLess(Tail(a), Tail(b))

RECURSIVE InsertDescending(_, _)
\* An insertion that keeps the list descending.
InsertDescending(x, s) ==
  IF s = <<>> THEN <<x>>
  ELSE IF StrLess(Head(s), x) THEN <<x>> \o s
  ELSE <<Head(s)>> \o InsertDescending(x, Tail(s))

RECURSIVE Insert(_, _)
Insert(x, s) ==
  IF s = <<>> THEN <<x>>
  ELSE IF StrLess(x, Head(s)) THEN <<x>> \o s
  ELSE <<Head(s)>> \o Insert(x, Tail(s))

\* An arrangement step that leaves the list as it was listed.
SortStringsNoop(s) == s

RECURSIVE SortStrings(_)
\* sort.Strings: the ascending arrangement of s.
SortStrings(s) ==
  IF s = <<>> THEN <<>> ELSE Insert(Head(s), SortStrings(Tail(s)))

\* All arrangements of the finite set S as a sequence.
Perms(S) ==
  {p \in [1..Cardinality(S) -> S] : \A x, y \in 1..Cardinality(S) : p[x] = p[y] => x = y}

NameKey(tc) == tc.Name

HeaderKey(tc) == tc.Key

\* sort.Slice(c, less) with less comparing the keys key[tc]: sort.Slice is not
\* stable, so any arrangement that is ascending in the key may result.
SortSlice(c, key) ==
  {p \in Perms(c) :
     \A x, y \in 1..Len(p) : x < y => ~StrLess(key[p[y]], key[p[x]])}

\* Ordering the test-bench collection by Name whatever the variant.
SortKeyBAlwaysName(v, tc) == NameKey(tc)

\* The key the test-bench collection is ordered by.
SortKeyB(v, tc) == IF v = 1 THEN HeaderKey(tc) ELSE NameKey(tc)

(***************************************************************************)
(* compareSessions                                                         *)
(***************************************************************************)
NoLog == [msg |-> "none", n1 |-> 0, n2 |-> 0, x |-> <<>>, y |-> <<>>]

RECURSIVE FirstDiff(_, _, _)
\* The loop of compareSessions: the first index at which a and b differ, 0 if none.
FirstDiff(a, b, k) ==
  IF k > Len(a) THEN 0
  ELSE IF a[k] # b[k] THEN k
  ELSE FirstDiff(a, b, k + 1)

compareSessions(session1, session2) ==
  IF Len(session1) # Len(session2)
  THEN [ok |-> FALSE, s1 |-> session1, s2 |-> session2,
        log |-> [msg |-> "count", n1 |-> Len(session1), n2 |-> Len(session2),
                 x |-> <<>>, y |-> <<>>]]
  ELSE LET a == SortStrings(session1)
           b == SortStrings(session2)
           d == FirstDiff(a, b, 1)
       IN  IF d # 0
           THEN [ok |-> FALSE, s1 |-> a, s2 |-> b,
                 log |-> [msg |-> "names", n1 |-> 0, n2 |-> 0, x |-> a[d], y |-> b[d]]]
           ELSE [ok |-> TRUE, s1 |-> a, s2 |-> b, log |-> NoLog]

(***************************************************************************)
(* Test cases, stores and files                                            *)
(***************************************************************************)
\* A timestamp as recorded: a value unique to the record and the field.
Ts(root, s, n, kind) == <<root, s, n, kind>>

\* The record of root A's session s named n.  The pre-recorded side carries no
\* Keploy-Test-Id header.
CaseA(s, n) ==
  [Name |-> n, Key |-> <<>>, ReqTs |-> Ts("A", s, n, "req"), RespTs |-> Ts("A", s, n, "resp")]

CaseB(s, n, k) ==
  [Name |-> n, Key |-> k, ReqTs |-> Ts("B", s, n, "req"), RespTs |-> Ts("B", s, n, "resp")]

\* Root A's possible collections for session s: its first k names.
CollectionsA(s) == {{CaseA(s, NameSeq[j]) : j \in 1..k} : k \in 0..MaxCases}

\* Root B's possible collections for session s: at most MaxCases records with
\* distinct names, each with any header value.
CollectionsB(s) ==
  UNION {{{CaseB(s, n, kf[n]) : n \in ns} : kf \in [ns -> Keys]} :
           ns \in {x \in SUBSET Names : Cardinality(x) <= MaxCases}}

StoresA == UNION {{f \in [S -> UNION {CollectionsA(s) : s \in S}] :
                     \A s \in S : f[s] \in CollectionsA(s)} : S \in SUBSET RootIds}

StoresB == UNION {{f \in [S -> UNION {CollectionsB(s) : s \in S}] :
                     \A s \in S : f[s] \in CollectionsB(s)} : S \in SUBSET RootIds}

\* The mocks.yaml of a session as recorded.
Fixture(root, s) == IF root = "A" THEN <<1>> \o s ELSE <<2>> \o s

NoFile == [exists |-> FALSE, data |-> <<>>]

File(d) == [exists |-> TRUE, data |-> d]

\* An update that reports success and leaves the collection as it was.
UpdateTestCaseDropped(coll, tc) == coll

\* UpdateTestCase: the record of that name is replaced by tc.
UpdateTestCase(coll, tc) == {r \in coll : r.Name # tc.Name} \cup {tc}

\* What a file may hold after a write of data to it failed: the old content (the
\* open failed) or a proper prefix of data (truncated, then written in part).
FailedWrite(old, data) == {old} \cup {SubSeq(data, 1, k) : k \in 0..(Len(data) - 1)}

(***************************************************************************)
(* Noise masks                                                             *)
(***************************************************************************)
\* Field paths a mask may name, and the rule lists a path may carry.
Paths == {"body.id", "header.date"}

Rules == {"r1", "r2"}

\* A noise mask: a mapping from some field paths to rule lists.
Masks == UNION {[D -> Rules] : D \in SUBSET Paths}

EmptyMask == [p \in {} |-> "r1"]

\* The override table without entries.
NoOverrides == [s \in {} |-> EmptyMask]

\* The override tables over the session identifiers of a full run.
Overrides == UNION {[S -> Masks] : S \in SUBSET RootIds}

\* No configuration file at configPath.
AbsentConfig == [state |-> "absent", global |-> EmptyMask, testsets |-> NoOverrides]

\* A configuration file that cannot be parsed.
MalformedConfig == [state |-> "malformed", global |-> EmptyMask, testsets |-> NoOverrides]

\* A well-formed configuration file declaring the masks g and the table t.
ValidConfig(g, t) == [state |-> "valid", global |-> g, testsets |-> t]

\* test.LeftJoinNoise / replay.LeftJoinNoise (keploy server): the global mask with
\* the entries of the test-set mask laid over it.
LeftJoinNoise(global, tsNoise) ==
  [p \in (DOMAIN global) \cup (DOMAIN tsNoise) |->
     IF p \in DOMAIN tsNoise THEN tsNoise[p] ELSE global[p]]

\* GetNoiseFromConfig.  Variant 1 returns an error for a missing file and for a
\* file ReadTestConfig rejects; variant 2 returns nil for a missing file and an
\* error when viper cannot read or unmarshal it.  Every error comes with empty
\* masks.
GetNoiseFromConfig(v, c) ==
  IF c.state = "valid"
  THEN [global |-> c.global, testsets |-> c.testsets, err |-> FALSE]
  ELSE [global |-> EmptyMask, testsets |-> NoOverrides,
        err |-> IF v = 1 THEN TRUE ELSE c.state = "malformed"]

\* A resolution that lays the mask of the session before under the global one.
ResolveNoiseCarried(global, testsets, s) ==
  IF s \in DOMAIN testsets
  THEN LeftJoinNoise(LeftJoinNoise(global, noiseConfig), testsets[s])
  ELSE LeftJoinNoise(global, noiseConfig)

\* The mask of every session is the global one.
ResolveNoiseIgnoringOverride(global, testsets, s) == global

\* compareTestCases, head of the session loop: noiseConfig := globalNoise, and
\* the left join when the session has an entry in testSetNoise.
ResolveNoise(global, testsets, s) ==
  IF s \in DOMAIN testsets THEN LeftJoinNoise(global, testsets[s]) ELSE global

(***************************************************************************)
(* Decisions of the code, one operator each                                *)
(***************************************************************************)
\* Going on after compareSessions whatever it answered.
AbortNever(ok) == FALSE

\* main: "if !ok { ...; return }" after compareSessions.
AbortOnMismatch(ok) == ~ok

\* Taking any two collections as comparable.
LengthsAlwaysEqual(c1, c2) == TRUE

\* "if len(readTcs1) != len(readTcs2) { ...; return false }", negated.
LengthsEqual(c1, c2) == Len(c1) = Len(c2)

\* Taking any two cases as the same case.
NamesAlwaysEqual(a, b) == TRUE

\* "if readTcs1[i].Name != readTcs2[i].Name { ...; return false }", negated.
NamesEqual(a, b) == a.Name = b.Name

\* A verdict that keeps only the last answer.
AccumulateLast(res, ok) == ok

\* "testSetRes = testSetRes && ok" and "passedOverall = passedOverall && testSetRes".
Accumulate(res, ok) == res /\ ok

\* A pair loop that stops at the first pair that does not match.
MorePairsWhileMatching(k, n, res) == k < n /\ res

\* "for i := 0; i < len(readTcs1); i++": whether the pair loop, at pair k of n with
\* the session verdict res so far, has another turn.
MorePairs(k, n, res) == k < n

\* A temporary file that ends up empty.
TempDataEmpty(c1) == <<>>

\* tempFile.Write(content1): what the temporary file holds afterwards.
TempData(c1) == c1

\* Writing to file 2 what was just written to file 1.
Write2DataSecond(c1, c2) == c2

\* ioutil.WriteFile(file2Path, content1, 0777): the data written to file 2.
Write2Data(c1, c2) == c1

\* Leaving the temporary file in place.
DeferredRemoveSkipped(t) == t

\* "defer os.Remove(tempFile.Name())": the temporary file once swapFiles returned.
DeferredRemove(t) == NoFile

(***************************************************************************)
(* The run                                                                 *)
(***************************************************************************)
Op(o, s, k, a, b) == [op |-> o, s |-> s, i |-> k, a |-> a, b |-> b, m |-> EmptyMask]

session == sessions[si]

hist == <<origA, origB, origFileA, origFileB>>

NoCases == <<>>

cfg == <<variant, mode, config>>

noise == <<globalNoise, testSetNoise, noiseErr>>

\* What most steps of a run leave alone: the inputs, the loaded masks, the mask of
\* the session and the arrangements of root B.
env == <<cfg, noise, noiseConfig, arrangedB>>

disk == <<storeA, storeB, fileA, fileB, temp>>

lists == <<tsets1, tsets2, sessions, reconLog, listed1, listed2>>

mem == <<readTcs1, readTcs2, content1, content2>>

verdicts == <<testSetRes, passedOverall>>

\* The error is logged and the run goes on where it is.
FinishGoesOn(e, code) == pc' = pc /\ err' = e /\ exitCode' = code

\* The run ends: the error logged and the exit status.
Finish(e, code) == pc' = "done" /\ err' = e /\ exitCode' = code

\* kYaml.ReadSessionIndices / pkg.ReadSessionIndices on the pre-recorded root.
ListSessions1 ==
  /\ pc = "list1"
  /\ \/ /\ \E l \in Perms(DOMAIN storeA) : tsets1' = l
        /\ pc' = "list2"
        /\ UNCHANGED <<err, exitCode>>
     \/ /\ Finish("list1", 0)
        /\ UNCHANGED tsets1
  /\ UNCHANGED <<env, disk, hist, mem, verdicts, tsets2, sessions, reconLog, listed1,
                 listed2, si, i, ops, aligned>>

\* ReadSessionIndices on the test-bench root.
ListSessions2 ==
  /\ pc = "list2"
  /\ \/ /\ \E l \in Perms(DOMAIN storeB) : tsets2' = l
        /\ pc' = "reconcile"
        /\ UNCHANGED <<err, exitCode>>
     \/ /\ Finish("list2", 0)
        /\ UNCHANGED tsets2
  /\ UNCHANGED <<env, disk, hist, mem, verdicts, tsets1, sessions, reconLog, listed1,
                 listed2, si, i, ops, aligned>>

\* main: ok := compareSessions(tsets1, tsets2, logger); sessions := tsets1.
Reconcile ==
  /\ pc = "reconcile"
  /\ LET r == compareSessions(tsets1, tsets2) IN
       /\ tsets1' = r.s1
       /\ tsets2' = r.s2
       /\ reconLog' = r.log
       /\ IF AbortOnMismatch(r.ok)
          THEN Finish("sessions", 0) /\ UNCHANGED sessions
          ELSE sessions' = r.s1 /\ pc' = "dispatch" /\ UNCHANGED <<err, exitCode>>
  /\ UNCHANGED <<env, disk, hist, mem, verdicts, listed1, listed2, si, i, ops, aligned>>

\* main's choice of the mode, and the "no sessions found" guard: variant 1 has it
\* at the head of compareTestCases and PrepareMockAssertion (return false), variant 2
\* in main (return).
Dispatch ==
  /\ pc = "dispatch"
  /\ IF Len(sessions) = 0
     THEN Finish("no_sessions", IF variant = 1 THEN 1 ELSE 0) /\ UNCHANGED si
     ELSE /\ si' = 1
          /\ pc' = IF mode = "test" THEN "noise" ELSE "readA"
          /\ UNCHANGED <<err, exitCode>>
  /\ UNCHANGED <<env, disk, hist, mem, verdicts, lists, i, ops, aligned>>

\* compareTestCases: "globalNoise, testSetNoise, err := GetNoiseFromConfig(configPath)";
\* an error is logged ("continuing without config file") and the run goes on.
LoadNoise ==
  /\ pc = "noise"
  /\ LET r == GetNoiseFromConfig(variant, config) IN
       /\ globalNoise' = r.global
       /\ testSetNoise' = r.testsets
       /\ noiseErr' = r.err
  /\ pc' = "readA"
  /\ UNCHANGED <<cfg, noiseConfig, arrangedB, disk, hist, mem, verdicts, lists, si, i,
                 ops, aligned, err, exitCode>>

\* The session loop moves on to session k: the run returns after the last one.
NextSession(k, overall) ==
  /\ si' = k
  /\ IF k <= Len(sessions)
     THEN pc' = "readA" /\ UNCHANGED <<err, exitCode>>
     ELSE IF overall THEN Finish("none", 0) ELSE Finish("not_equal", 1)

\* The head of the session loop: in compareTestCases the mask of the session; then
\* ReadTestcase / GetTestCases on the pre-recorded root, and the sort by Name.
ReadA ==
  /\ pc = "readA"
  /\ noiseConfig' = IF mode = "test"
                    THEN ResolveNoise(globalNoise, testSetNoise, session)
                    ELSE noiseConfig
  /\ \/ /\ \E p \in SortSlice(storeA[session], [tc \in storeA[session] |-> NameKey(tc)]) :
             /\ readTcs1' = p
             /\ aligned' = [s \in DOMAIN aligned \cup {session} |->
                              IF s = session THEN [a |-> p, b |-> NoCases] ELSE aligned[s]]
        /\ ops' = Append(ops, Op("readA", session, 0, <<>>, <<>>))
        /\ pc' = "readB"
        /\ UNCHANGED <<err, exitCode>>
     \/ /\ Finish("read", 1)
        /\ UNCHANGED <<readTcs1, aligned, ops>>
  /\ UNCHANGED <<cfg, noise, arrangedB, disk, hist, lists, verdicts, readTcs2, content1,
                 content2, si, i>>

\* ReadTestcase / GetTestCases on the test-bench root, the sort of that collection,
\* and the comparison of the two lengths.  The store returns the records of a
\* session in the same order at every read and sort.Slice is a function of the
\* slice it is given, so a session read again is arranged as before.
ReadB ==
  /\ pc = "readB"
  /\ \/ /\ \E p \in SortSlice(storeB[session],
                         [tc \in storeB[session] |-> SortKeyB(variant, tc)]) :
             /\ session \in DOMAIN arrangedB =>
                  arrangedB[session] = [j \in 1..Len(p) |-> p[j].Name]
             /\ arrangedB' = [s \in DOMAIN arrangedB \cup {session} |->
                                IF s = session THEN [j \in 1..Len(p) |-> p[j].Name]
                                ELSE arrangedB[s]]
             /\ readTcs2' = p
             /\ aligned' = [aligned EXCEPT ![session].b = p]
             /\ ops' = Append(ops, Op("readB", session, 0, <<>>, <<>>))
             /\ IF ~LengthsEqual(readTcs1, p)
                THEN Finish("cardinality", 1) /\ UNCHANGED <<si, i, verdicts>>
                ELSE IF Len(readTcs1) > 0
                THEN /\ i' = 1
                     /\ pc' = IF mode = "test" THEN "match" ELSE "updA"
                     /\ testSetRes' = TRUE
                     /\ UNCHANGED <<si, passedOverall, err, exitCode>>
                ELSE IF mode = "test"
                THEN /\ testSetRes' = TRUE
                     /\ passedOverall' = Accumulate(passedOverall, TRUE)
                     /\ NextSession(si + 1, passedOverall')
                     /\ UNCHANGED i
                ELSE pc' = "swap_read1" /\ UNCHANGED <<si, i, verdicts, err, exitCode>>
     \/ /\ Finish("read", 1)
        /\ UNCHANGED <<readTcs2, aligned, ops, si, i, verdicts, arrangedB>>
  /\ UNCHANGED <<cfg, noise, noiseConfig, disk, hist, lists, readTcs1, content1,
                 content2>>

\* compareTestCases: one turn of the pair loop.  AbsMatch is the external matcher:
\* its verdict is any boolean; it is handed the two cases and noiseConfig.
Match ==
  /\ pc = "match"
  /\ \E ok \in BOOLEAN :
       /\ ops' = Append(ops, [Op(IF ok THEN "match_ok" ELSE "match_diff", session, i,
                                 readTcs1[i].Name, readTcs2[i].Name)
                                EXCEPT !.m = noiseConfig])
       /\ testSetRes' = Accumulate(testSetRes, ok)
       /\ IF MorePairs(i, Len(readTcs1), testSetRes')
          THEN i' = i + 1 /\ UNCHANGED <<pc, si, passedOverall, err, exitCode>>
          ELSE /\ passedOverall' = Accumulate(passedOverall, testSetRes')
               /\ NextSession(si + 1, passedOverall')
               /\ UNCHANGED i
  /\ UNCHANGED <<env, disk, hist, lists, mem, aligned>>

\* An exchange that takes the Keploy-Test-Id header along with the timestamps.
ExchangedWithKey(a, b) ==
  [a |-> [a EXCEPT !.ReqTs = b.ReqTs, !.RespTs = b.RespTs, !.Key = b.Key],
   b |-> [b EXCEPT !.ReqTs = a.ReqTs, !.RespTs = a.RespTs, !.Key = a.Key]]

\* An exchange that copies root B's timestamps to root A and leaves root B's.
ExchangedOneWay(a, b) ==
  [a |-> [a EXCEPT !.ReqTs = b.ReqTs, !.RespTs = b.RespTs], b |-> b]

\* An exchange that crosses the two fields: request with response.
ExchangedCrossed(a, b) ==
  [a |-> [a EXCEPT !.ReqTs = b.RespTs, !.RespTs = b.ReqTs],
   b |-> [b EXCEPT !.ReqTs = a.RespTs, !.RespTs = a.ReqTs]]

\* The two cases of pair i with their timestamps exchanged.
Exchanged(a, b) ==
  [a |-> [a EXCEPT !.ReqTs = b.ReqTs, !.RespTs = b.RespTs],
   b |-> [b EXCEPT !.ReqTs = a.ReqTs, !.RespTs = a.RespTs]]

\* PrepareMockAssertion: one turn of the pair loop up to the first update: the
\* comparison of the names, the exchange of the timestamps in memory, and
\* UpdateTestCase on the pre-recorded root.
ExchangeUpdateA ==
  /\ pc = "updA"
  /\ IF ~NamesEqual(readTcs1[i], readTcs2[i])
     THEN /\ Finish("identity", 1)
          /\ UNCHANGED <<readTcs1, readTcs2, storeA, ops>>
     ELSE LET x == Exchanged(readTcs1[i], readTcs2[i]) IN
            /\ readTcs1' = [readTcs1 EXCEPT ![i] = x.a]
            /\ readTcs2' = [readTcs2 EXCEPT ![i] = x.b]
            /\ \/ /\ storeA' = [storeA EXCEPT ![session] = UpdateTestCase(@, x.a)]
                  /\ ops' = Append(ops, Op("updA", session, i, x.a.Name, x.b.Name))
                  /\ pc' = "updB"
                  /\ UNCHANGED <<err, exitCode>>
               \/ /\ Finish("updateA", 1)
                  /\ UNCHANGED <<storeA, ops>>
  /\ UNCHANGED <<env, hist, lists, verdicts, storeB, fileA, fileB, temp, content1,
                 content2, si, i, aligned>>

\* UpdateTestCase on the test-bench root, and the step of the pair loop.
UpdateB ==
  /\ pc = "updB"
  /\ \/ /\ storeB' = [storeB EXCEPT ![session] = UpdateTestCase(@, readTcs2[i])]
        /\ ops' = Append(ops, Op("updB", session, i, readTcs1[i].Name, readTcs2[i].Name))
        /\ IF i < Len(readTcs1)
           THEN i' = i + 1 /\ pc' = "updA"
           ELSE pc' = "swap_read1" /\ UNCHANGED i
        /\ UNCHANGED <<err, exitCode>>
     \/ /\ Finish("updateB", 1)
        /\ UNCHANGED <<storeB, ops, i>>
  /\ UNCHANGED <<env, hist, lists, verdicts, mem, storeA, fileA, fileB, temp, si,
                 aligned>>

(***************************************************************************)
(* swapFiles, one action per file operation.  A return after the temporary  *)
(* file was created runs the deferred os.Remove.                           *)
(***************************************************************************)
\* An order of the steps that writes file 1 before it reads file 2.
SwapStepAfterWriteFirst(p) ==
  CASE p = "swap_read1" -> "swap_temp"
    [] p = "swap_temp" -> "swap_wtemp"
    [] p = "swap_wtemp" -> "swap_write1"
    [] p = "swap_write1" -> "swap_read2"
    [] p = "swap_read2" -> "swap_write2"

\* The order of swapFiles' steps: read file 1, create the temporary file, write
\* it, read file 2, write file 1, write file 2.
SwapStepAfter(p) ==
  CASE p = "swap_read1" -> "swap_temp"
    [] p = "swap_temp" -> "swap_wtemp"
    [] p = "swap_wtemp" -> "swap_read2"
    [] p = "swap_read2" -> "swap_write1"
    [] p = "swap_write1" -> "swap_write2"

\* content1, err := ioutil.ReadFile(file1Path)
SwapRead1 ==
  /\ pc = "swap_read1"
  /\ \/ /\ content1' = fileA[session]
        /\ ops' = Append(ops, Op("fread1", session, 0, <<>>, <<>>))
        /\ pc' = SwapStepAfter(pc)
        /\ UNCHANGED <<err, exitCode>>
     \/ /\ Finish("swap_read1", 1)
        /\ UNCHANGED <<content1, ops>>
  /\ UNCHANGED <<env, disk, hist, lists, verdicts, readTcs1, readTcs2, content2, si, i,
                 aligned>>

\* tempFile, err := ioutil.TempFile("", "temp")
SwapTempCreate ==
  /\ pc = "swap_temp"
  /\ \/ /\ temp' = File(<<>>)
        /\ ops' = Append(ops, Op("tcreate", session, 0, <<>>, <<>>))
        /\ pc' = SwapStepAfter(pc)
        /\ UNCHANGED <<err, exitCode>>
     \/ /\ Finish("swap_temp", 1)
        /\ UNCHANGED <<temp, ops>>
  /\ UNCHANGED <<env, hist, lists, verdicts, mem, storeA, storeB, fileA, fileB, si, i,
                 aligned>>

\* tempFile.Write(content1); tempFile.Close()
SwapTempWrite ==
  /\ pc = "swap_wtemp"
  /\ \/ /\ temp' = File(TempData(content1))
        /\ pc' = SwapStepAfter(pc)
        /\ UNCHANGED <<err, exitCode>>
     \/ /\ temp' = DeferredRemove(temp)
        /\ Finish("swap_wtemp", 1)
  /\ UNCHANGED <<env, hist, lists, verdicts, mem, storeA, storeB, fileA, fileB, si, i,
                 ops, aligned>>

\* content2, err := ioutil.ReadFile(file2Path)
SwapRead2 ==
  /\ pc = "swap_read2"
  /\ \/ /\ content2' = fileB[session]
        /\ ops' = Append(ops, Op("fread2", session, 0, <<>>, <<>>))
        /\ pc' = SwapStepAfter(pc)
        /\ UNCHANGED <<temp, err, exitCode>>
     \/ /\ temp' = DeferredRemove(temp)
        /\ Finish("swap_read2", 1)
        /\ UNCHANGED <<content2, ops>>
  /\ UNCHANGED <<env, hist, lists, verdicts, readTcs1, readTcs2, content1, storeA,
                 storeB, fileA, fileB, si, i, aligned>>

\* ioutil.WriteFile(file1Path, content2, 0777)
SwapWrite1 ==
  /\ pc = "swap_write1"
  /\ \/ /\ fileA' = [fileA EXCEPT ![session] = content2]
        /\ ops' = Append(ops, Op("fwrite1", session, 0, <<>>, <<>>))
        /\ pc' = SwapStepAfter(pc)
        /\ UNCHANGED <<temp, err, exitCode>>
     \/ /\ \E d \in FailedWrite(fileA[session], content2) :
             fileA' = [fileA EXCEPT ![session] = d]
        /\ ops' = Append(ops, Op("fwrite1_failed", session, 0, <<>>, <<>>))
        /\ temp' = DeferredRemove(temp)
        /\ Finish("swap_write1", 1)
  /\ UNCHANGED <<env, hist, lists, verdicts, mem, storeA, storeB, fileB, si, i,
                 aligned>>

\* ioutil.WriteFile(file2Path, content1, 0777); return nil: the swap of this
\* session is done and the session loop moves on.
SwapWrite2 ==
  /\ pc = "swap_write2"
  /\ \/ /\ fileB' = [fileB EXCEPT ![session] = Write2Data(content1, content2)]
        /\ ops' = Append(ops, Op("swapped", session, 0, <<>>, <<>>))
        /\ temp' = DeferredRemove(temp)
        /\ NextSession(si + 1, TRUE)
     \/ /\ \E d \in FailedWrite(fileB[session], Write2Data(content1, content2)) :
             fileB' = [fileB EXCEPT ![session] = d]
        /\ ops' = Append(ops, Op("fwrite2_failed", session, 0, <<>>, <<>>))
        /\ temp' = DeferredRemove(temp)
        /\ Finish("swap_write2", 1)
        /\ UNCHANGED si
  /\ UNCHANGED <<env, hist, lists, verdicts, mem, storeA, storeB, fileA, i, aligned>>

(***************************************************************************)
(* Specifications                                                          *)
(***************************************************************************)
\* State a run does not depend on at its start.
Idle ==
  /\ temp = NoFile
  /\ sessions = <<>>
  /\ si = 0
  /\ i = 0
  /\ readTcs1 = <<>>
  /\ readTcs2 = <<>>
  /\ content1 = <<>>
  /\ content2 = <<>>
  /\ testSetRes = TRUE
  /\ passedOverall = TRUE
  /\ err = "none"
  /\ exitCode = 0
  /\ reconLog = NoLog
  /\ aligned = <<>>
  /\ ops = <<>>
  /\ globalNoise = EmptyMask
  /\ testSetNoise = NoOverrides
  /\ noiseErr = FALSE
  /\ noiseConfig = EmptyMask
  /\ arrangedB = <<>>

\* A run of the program on two recording roots, from the first listing on.
Init ==
  /\ variant \in {1, 2}
  /\ mode \in {"test", "mock"}
  /\ config = AbsentConfig
  /\ storeA \in StoresA
  /\ storeB \in StoresB
  /\ fileA = [s \in DOMAIN storeA |-> Fixture("A", s)]
  /\ fileB = [s \in DOMAIN storeB |-> Fixture("B", s)]
  /\ origA = storeA
  /\ origB = storeB
  /\ origFileA = fileA
  /\ origFileB = fileB
  /\ tsets1 = <<>>
  /\ tsets2 = <<>>
  /\ listed1 = <<>>
  /\ listed2 = <<>>
  /\ pc = "list1"
  /\ Idle

Next ==
  \/ ListSessions1
  \/ ListSessions2
  \/ Reconcile
  \/ Dispatch
  \/ LoadNoise
  \/ ReadA
  \/ ReadB
  \/ Match
  \/ ExchangeUpdateA
  \/ UpdateB
  \/ SwapRead1
  \/ SwapTempCreate
  \/ SwapTempWrite
  \/ SwapRead2
  \/ SwapWrite1
  \/ SwapWrite2

Spec == Init /\ [][Next]_vars

\* compareSessions on any two lists, duplicates allowed: the run from the call of
\* compareSessions to main's decision.
InitSessions ==
  /\ variant \in {1, 2}
  /\ mode = "test"
  /\ config = AbsentConfig
  /\ storeA = <<>>
  /\ storeB = <<>>
  /\ fileA = <<>>
  /\ fileB = <<>>
  /\ origA = storeA
  /\ origB = storeB
  /\ origFileA = fileA
  /\ origFileB = fileB
  /\ tsets1 \in SeqsUpTo(ListIds, MaxList)
  /\ tsets2 \in SeqsUpTo(ListIds, MaxList)
  /\ listed1 = tsets1
  /\ listed2 = tsets2
  /\ pc = "reconcile"
  /\ Idle

NextSessions == Reconcile

SpecSessions == InitSessions /\ [][NextSessions]_vars

\* The only session of the swapFiles runs.
SwapSession == <<2>>

\* swapFiles on any two fixture contents: a mock-assert run on one session without
\* test cases, from the call of swapFiles on.
InitSwap ==
  /\ variant \in {1, 2}
  /\ mode = "mock"
  /\ config = AbsentConfig
  /\ globalNoise = EmptyMask
  /\ testSetNoise = NoOverrides
  /\ noiseErr = FALSE
  /\ noiseConfig = EmptyMask
  /\ arrangedB = [s \in {SwapSession} |-> <<>>]
  /\ storeA = [s \in {SwapSession} |-> {}]
  /\ storeB = [s \in {SwapSession} |-> {}]
  /\ fileA \in [{SwapSession} -> Contents]
  /\ fileB \in [{SwapSession} -> Contents]
  /\ origA = storeA
  /\ origB = storeB
  /\ origFileA = fileA
  /\ origFileB = fileB
  /\ tsets1 = <<SwapSession>>
  /\ tsets2 = <<SwapSession>>
  /\ listed1 = tsets1
  /\ listed2 = tsets2
  /\ temp = NoFile
  /\ sessions = <<SwapSession>>
  /\ si = 1
  /\ i = 0
  /\ readTcs1 = <<>>
  /\ readTcs2 = <<>>
  /\ content1 = <<>>
  /\ content2 = <<>>
  /\ testSetRes = TRUE
  /\ passedOverall = TRUE
  /\ err = "none"
  /\ exitCode = 0
  /\ reconLog = NoLog
  /\ aligned = [s \in {SwapSession} |-> [a |-> NoCases, b |-> NoCases]]
  /\ ops = <<Op("readA", SwapSession, 0, <<>>, <<>>), Op("readB", SwapSession, 0, <<>>, <<>>)>>
  /\ pc = "swap_read1"

NextSwap ==
  \/ SwapRead1
  \/ SwapTempCreate
  \/ SwapTempWrite
  \/ SwapRead2
  \/ SwapWrite1
  \/ SwapWrite2

SpecSwap == InitSwap /\ [][NextSwap]_vars

\* The program is started again, in mock-assert mode on the two roots as a
\* successful mock-assert run left them.
Rerun ==
  /\ pc = "done"
  /\ err = "none"
  /\ mode = "mock"
  /\ \A k \in 1..Len(ops) : ops[k].op # "rerun"
  /\ ops' = Append(ops, Op("rerun", <<>>, 0, <<>>, <<>>))
  /\ pc' = "list1"
  /\ tsets1' = <<>>
  /\ tsets2' = <<>>
  /\ sessions' = <<>>
  /\ reconLog' = NoLog
  /\ si' = 0
  /\ i' = 0
  /\ readTcs1' = <<>>
  /\ readTcs2' = <<>>
  /\ content1' = <<>>
  /\ content2' = <<>>
  /\ UNCHANGED <<env, disk, hist, verdicts, aligned, listed1, listed2, err, exitCode>>

\* Two mock-assert runs in a row on the same two roots.
InitTwice == Init /\ mode = "mock"

NextTwice ==
  \/ ListSessions1
  \/ ListSessions2
  \/ Reconcile
  \/ Dispatch
  \/ ReadA
  \/ ReadB
  \/ ExchangeUpdateA
  \/ UpdateB
  \/ SwapRead1
  \/ SwapTempCreate
  \/ SwapTempWrite
  \/ SwapRead2
  \/ SwapWrite1
  \/ SwapWrite2
  \/ Rerun

SpecTwice == InitTwice /\ [][NextTwice]_vars

\* What configPath may hold: no file, a malformed file, or a well-formed file
\* declaring any global mask and any override table.
Configs ==
  {AbsentConfig, MalformedConfig} \cup
    {ValidConfig(g, ts) : g \in Masks, ts \in Overrides}

\* The one test case each session of a noise run holds, in each root.
NoiseCase == NameSeq[1]

\* Test-assert runs under any noise configuration, on two roots with the same two
\* sessions of one test case each.
InitNoise ==
  /\ variant \in {1, 2}
  /\ mode = "test"
  /\ config \in Configs
  /\ storeA = [s \in RootIds |-> {CaseA(s, NoiseCase)}]
  /\ storeB = [s \in RootIds |-> {CaseB(s, NoiseCase, <<>>)}]
  /\ fileA = [s \in DOMAIN storeA |-> Fixture("A", s)]
  /\ fileB = [s \in DOMAIN storeB |-> Fixture("B", s)]
  /\ origA = storeA
  /\ origB = storeB
  /\ origFileA = fileA
  /\ origFileB = fileB
  /\ tsets1 = <<>>
  /\ tsets2 = <<>>
  /\ listed1 = <<>>
  /\ listed2 = <<>>
  /\ pc = "list1"
  /\ Idle

NextNoise ==
  \/ ListSessions1
  \/ ListSessions2
  \/ Reconcile
  \/ Dispatch
  \/ LoadNoise
  \/ ReadA
  \/ ReadB
  \/ Match

SpecNoise == InitNoise /\ [][NextNoise]_vars

(***************************************************************************)
(* Properties                                                              *)
(***************************************************************************)
\* The control positions inside swapFiles.
SwapPcs == {"swap_read1", "swap_temp", "swap_wtemp", "swap_read2", "swap_write1",
            "swap_write2"}

\* The errors swapFiles returns.
SwapErrs == {"swap_read1", "swap_temp", "swap_wtemp", "swap_read2", "swap_write1",
             "swap_write2"}

\* The session the run is at, or was at when it ended early.
AtSession == si \in 1..Len(sessions)

\* The operations logged for session s whose kind is in K.
OpsOf(s, K) == SelectSeq(ops, LAMBDA o : o.s = s /\ o.op \in K)

PairKinds == {"match_ok", "match_diff", "updA", "updB"}

FileKinds == {"fread1", "tcreate", "fread2", "fwrite1", "fwrite1_failed", "swapped",
              "fwrite2_failed"}

\* Root A's (root B's) records of session s carry the timestamps the records of the
\* same name had in the other root before the run.
TimestampsExchangedA(s) ==
  \A r \in storeA[s] : \E q \in origB[s] :
    q.Name = r.Name /\ r.ReqTs = q.ReqTs /\ r.RespTs = q.RespTs

TimestampsExchangedB(s) ==
  \A r \in storeB[s] : \E q \in origA[s] :
    q.Name = r.Name /\ r.ReqTs = q.ReqTs /\ r.RespTs = q.RespTs

AllOriginalA(s) == storeA[s] = origA[s] /\ fileA[s] = origFileA[s]

AllOriginalB(s) == storeB[s] = origB[s] /\ fileB[s] = origFileB[s]

AllExchangedA(s) == TimestampsExchangedA(s) /\ fileA[s] = origFileB[s]

AllExchangedB(s) == TimestampsExchangedB(s) /\ fileB[s] = origFileA[s]

\* C1: in mock-assert mode, in every state a run can be interrupted in (any state
\* between two storage operations, and the state a fatal error leaves), for every
\* session and each root the session's artifacts (the timestamps of all its test
\* cases and its mocks.yaml) are all original or all exchanged.
C1_SwapNeverPartial ==
  mode = "mock" =>
    \A s \in DOMAIN storeA \cap DOMAIN storeB :
      /\ AllOriginalA(s) \/ AllExchangedA(s)
      /\ AllOriginalB(s) \/ AllExchangedB(s)

\* C2: when the write of file A (step 3) or of file B (step 4) failed and swapFiles
\* has returned the error, the temporary file exists and holds A's original content,
\* and the original contents of A and of B are both still in A, B or the temporary
\* file.
C2_TempSurvivesFailedWrite ==
  (pc = "done" /\ err \in {"swap_write1", "swap_write2"}) =>
    /\ temp.exists
    /\ temp.data = origFileA[session]
    /\ origFileA[session] \in {fileA[session], fileB[session], temp.data}
    /\ origFileB[session] \in {fileA[session], fileB[session], temp.data}

\* C3: for every session whose swapFiles returned without error, file A holds
\* exactly what file B held before and file B exactly what file A held before.
C3_SwapExchangesContents ==
  \A k \in 1..Len(ops) :
    ops[k].op = "swapped" =>
      /\ fileA[ops[k].s] = origFileB[ops[k].s]
      /\ fileB[ops[k].s] = origFileA[ops[k].s]

\* A swap of two different, non-empty contents returned without error.
C3_Witness ==
  /\ pc = "done"
  /\ err = "none"
  /\ \E k \in 1..Len(ops) :
       /\ ops[k].op = "swapped"
       /\ origFileA[ops[k].s] # origFileB[ops[k].s]
       /\ origFileA[ops[k].s] # <<>>
       /\ origFileB[ops[k].s] # <<>>

\* C4: while swapFiles is in progress, whenever file A or file B differs from its
\* content before the swap, the temporary file exists and holds A's original
\* content; so neither file is written before A's content is in the temporary file.
C4_TempHoldsABeforeAnyWrite ==
  (pc \in SwapPcs /\ (fileA[session] # origFileA[session] \/ fileB[session] # origFileB[session])) =>
    /\ temp.exists
    /\ temp.data = origFileA[session]

\* Between step 3 and step 4: A holds B's content, B is not yet written.
C4_Witness ==
  /\ pc = "swap_write2"
  /\ fileA[session] # origFileA[session]
  /\ fileA[session] = origFileB[session]
  /\ fileB[session] = origFileB[session]
  /\ origFileA[session] # <<>>

\* C5: once swapFiles has returned, with success or with any error, no temporary
\* file exists.
C5_TempRemovedOnEveryExit ==
  pc \notin SwapPcs => ~temp.exists

\* swapFiles created the temporary file and returned the error of the last write.
C5_Witness ==
  /\ pc = "done"
  /\ err = "swap_write2"
  /\ \E k \in 1..Len(ops) : ops[k].op = "tcreate"
  /\ ~temp.exists

\* C6: once compareSessions has reported a mismatch the run has ended, and no
\* collection was loaded, no pair matched, no record updated and no fixture file
\* read or written.
C6_MismatchStopsRun ==
  reconLog.msg # "none" =>
    /\ pc = "done"
    /\ err = "sessions"
    /\ ops = <<>>
    /\ aligned = <<>>
    /\ storeA = origA
    /\ storeB = origB
    /\ fileA = origFileA
    /\ fileB = origFileB
    /\ ~temp.exists

\* Two roots with the same number of sessions, one of them different, and test
\* cases to work on.
C6_Witness ==
  /\ pc = "done"
  /\ reconLog.msg = "names"
  /\ \E s \in DOMAIN storeA : storeA[s] # {}
  /\ \E s \in DOMAIN storeB : storeB[s] # {}

\* How often x occurs in the list l.
Count(l, x) == Cardinality({k \in 1..Len(l) : l[k] = x})

SameMultiset(l1, l2) == \A x \in ListIds : Count(l1, x) = Count(l2, x)

AscendingStrings(p) == \A x, y \in 1..Len(p) : x < y => ~StrLess(p[y], p[x])

\* The ascending list with the elements of l.
Sorted(l) ==
  CHOOSE p \in [1..Len(l) -> ListIds] : AscendingStrings(p) /\ SameMultiset(p, l)

\* The smallest index at which a and b (of one length, not equal) differ.
SmallestDiff(a, b) ==
  CHOOSE d \in 1..Len(a) : a[d] # b[d] /\ \A e \in 1..(d - 1) : a[e] = b[e]

\* C7: compareSessions answers true exactly when the two lists are equal as
\* multisets; lists of different lengths are reported with both counts, and lists
\* of one length that differ are reported with the pair at the smallest index at
\* which the two sorted lists disagree.
C7_ReconcilerIsMultisetEquality ==
  (pc = "dispatch" \/ (pc = "done" /\ err = "sessions")) =>
    /\ (pc = "dispatch") <=> SameMultiset(listed1, listed2)
    /\ pc = "dispatch" => (reconLog = NoLog /\ sessions = Sorted(listed1))
    /\ Len(listed1) # Len(listed2) =>
         /\ pc = "done"
         /\ reconLog.msg = "count"
         /\ reconLog.n1 = Len(listed1)
         /\ reconLog.n2 = Len(listed2)
    /\ (Len(listed1) = Len(listed2) /\ ~SameMultiset(listed1, listed2)) =>
         LET a == Sorted(listed1)
             b == Sorted(listed2)
             d == SmallestDiff(a, b)
         IN  /\ pc = "done"
             /\ reconLog.msg = "names"
             /\ reconLog.x = a[d]
             /\ reconLog.y = b[d]

\* Two lists with a repeated element that are arrangements of each other, listed in
\* different orders, are found equal.
C7_Witness ==
  /\ pc = "dispatch"
  /\ Len(listed1) = 3
  /\ listed1 # listed2
  /\ listed1 # Sorted(listed1)
  /\ \E x \in ListIds : Count(listed1, x) = 2

\* Session number k has been taken past the comparison of the two lengths.
Paired(k) ==
  \/ k < si
  \/ /\ k = si
     /\ \/ pc \in {"match", "updA", "updB"} \cup SwapPcs
        \/ pc = "done" /\ err \in {"identity", "updateA", "updateB"} \cup SwapErrs

\* Session number k has been taken past its pair loop.
PairsFinished(k) ==
  \/ k < si
  \/ k = si /\ (pc \in SwapPcs \/ (pc = "done" /\ err \in SwapErrs))

\* The pair indices of the operations of kind K logged for session s, in order.
IdxOf(s, K) == [j \in 1..Len(OpsOf(s, K)) |-> OpsOf(s, K)[j].i]

UpTo(n) == [j \in 1..n |-> j]

\* C8: collections of unequal length are never paired: the run fails with the
\* cardinality error before any pair of that session is matched, exchanged or
\* persisted; collections of one length N are paired position by position, pair i
\* being the i-th case of each ordered collection, and a session whose pair loop
\* has ended had exactly the pairs 1..N processed, in that order.
C8_AlignerPairsEqualLengths ==
  /\ (pc = "done" /\ err = "cardinality") =>
       /\ AtSession
       /\ exitCode = 1
       /\ Len(aligned[session].a) # Len(aligned[session].b)
       /\ OpsOf(session, PairKinds \cup FileKinds) = <<>>
       /\ storeA[session] = origA[session]
       /\ storeB[session] = origB[session]
  /\ \A k \in 1..Len(sessions) :
       LET s == sessions[k] IN
         s \in DOMAIN aligned =>
           LET a == aligned[s].a
               b == aligned[s].b
               N == Len(a)
           IN  /\ Paired(k) => Len(b) = N
               /\ ~Paired(k) => OpsOf(s, PairKinds) = <<>>
               /\ \A j \in 1..Len(ops) :
                    (ops[j].s = s /\ ops[j].op \in PairKinds) =>
                      /\ ops[j].i \in 1..N
                      /\ ops[j].a = a[ops[j].i].Name
                      /\ ops[j].b = b[ops[j].i].Name
               /\ \E n \in 0..N : IdxOf(s, {"match_ok", "match_diff"}) = UpTo(n)
               /\ \E n \in 0..N : IdxOf(s, {"updA"}) = UpTo(n)
               /\ \E n \in 0..N : IdxOf(s, {"updB"}) = UpTo(n)
               /\ (PairsFinished(k) /\ mode = "test") =>
                    IdxOf(s, {"match_ok", "match_diff"}) = UpTo(N)
               /\ (PairsFinished(k) /\ mode = "mock") =>
                    /\ IdxOf(s, {"updA"}) = UpTo(N)
                    /\ IdxOf(s, {"updB"}) = UpTo(N)

\* The second session fails on its lengths after the two pairs of the first were
\* processed.
C8_Witness ==
  /\ pc = "done"
  /\ err = "cardinality"
  /\ si = 2
  /\ Len(aligned[sessions[1]].a) = 2
  /\ Len(OpsOf(sessions[1], PairKinds)) >= 2

\* The keys of the sequence of cases p, in its order.
NamesOf(p) == [j \in 1..Len(p) |-> p[j].Name]

HeadersOf(p) == [j \in 1..Len(p) |-> p[j].Key]

Elements(p) == {p[j] : j \in 1..Len(p)}

\* The test-bench collection of session s has been read and ordered.
ReadBDone(s) == \E j \in 1..Len(ops) : ops[j].s = s /\ ops[j].op = "readB"

\* Pairs are positional: every pair operation on session s took the cases at one
\* index of the two ordered collections.
Positional(s) ==
  \A j \in 1..Len(ops) :
    (ops[j].s = s /\ ops[j].op \in PairKinds) =>
      /\ ops[j].a = aligned[s].a[ops[j].i].Name
      /\ ops[j].b = aligned[s].b[ops[j].i].Name

\* C9 as claimed: in every session root A's collection is ascending by Name and
\* root B's collection ascending by the Keploy-Test-Id header, and the pairs are
\* positional.
C9_BOrderedByCorrelationKey ==
  \A s \in DOMAIN aligned :
    /\ AscendingStrings(NamesOf(aligned[s].a))
    /\ AscendingStrings(HeadersOf(aligned[s].b))
    /\ Positional(s)

\* C9 as amended: in every session root A's collection is ordered ascending by
\* Name; root B's collection is ordered ascending by the Keploy-Test-Id header in
\* variant 1 and ascending by Name in variant 2; each ordered collection holds
\* exactly the stored cases, and the pairs are positional.  Both modes order alike.
C9_OrderingPerVariant ==
  \A s \in DOMAIN aligned :
    /\ AscendingStrings(NamesOf(aligned[s].a))
    /\ Elements(aligned[s].a) = origA[s]
    /\ Len(aligned[s].a) = Cardinality(origA[s])
    /\ ReadBDone(s) =>
         /\ variant = 1 => AscendingStrings(HeadersOf(aligned[s].b))
         /\ variant = 2 => AscendingStrings(NamesOf(aligned[s].b))
         /\ Elements(aligned[s].b) = origB[s]
         /\ Len(aligned[s].b) = Cardinality(origB[s])
    /\ Positional(s)

\* Variant 2 ordered a test-bench collection by Name against its header values, and
\* a pair was taken from it.
C9_Witness ==
  /\ variant = 2
  /\ AtSession
  /\ session \in DOMAIN aligned
  /\ Len(aligned[session].b) = 2
  /\ StrLess(aligned[session].b[2].Key, aligned[session].b[1].Key)
  /\ OpsOf(session, PairKinds) # <<>>

\* The records of the collection named n.
Named(coll, n) == {r \in coll : r.Name = n}

\* C10: in mock-assert mode every persisted exchange belongs to a pair of equal
\* names; when the names of a pair differ the run ends with the identity error and
\* exit status 1, the two records of that pair are as before the run, and no later
\* pair, no fixture file and no later session was worked on.
C10_IdentityMismatchIsFatal ==
  /\ \A j \in 1..Len(ops) : ops[j].op \in {"updA", "updB"} => ops[j].a = ops[j].b
  /\ (pc = "done" /\ err = "identity") =>
       /\ mode = "mock"
       /\ exitCode = 1
       /\ AtSession
       /\ readTcs1[i].Name # readTcs2[i].Name
       /\ Named(storeA[session], readTcs1[i].Name) = Named(origA[session], readTcs1[i].Name)
       /\ Named(storeB[session], readTcs2[i].Name) = Named(origB[session], readTcs2[i].Name)
       /\ \A j \in 1..Len(ops) :
            ops[j].s = session =>
              /\ ops[j].op \notin FileKinds
              /\ ops[j].op \in PairKinds => ops[j].i < i
       /\ fileA[session] = origFileA[session]
       /\ fileB[session] = origFileB[session]
       /\ \A k \in (si + 1)..Len(sessions) :
            /\ \A j \in 1..Len(ops) : ops[j].s # sessions[k]
            /\ storeA[sessions[k]] = origA[sessions[k]]
            /\ storeB[sessions[k]] = origB[sessions[k]]
            /\ fileA[sessions[k]] = origFileA[sessions[k]]
            /\ fileB[sessions[k]] = origFileB[sessions[k]]

\* The names of the second pair of the first of two sessions differ, after the first
\* pair was persisted.
C10_Witness ==
  /\ pc = "done"
  /\ err = "identity"
  /\ si = 1
  /\ i = 2
  /\ Len(sessions) = 2
  /\ OpsOf(session, {"updB"}) # <<>>

\* The run was a mock-assert run and PrepareMockAssertion returned true.
MockSucceeded == mode = "mock" /\ pc = "done" /\ err = "none"

\* The record named n in the collection coll.
Rec(coll, n) == CHOOSE r \in coll : r.Name = n

\* C11: after a successful mock-assert run, for every aligned pair of every
\* session, root A's record of the pair carries the request and the response
\* timestamp root B's record of the pair had before the run, and root B's record
\* those root A's record had before the run.
C11_PairTimestampsExchanged ==
  MockSucceeded =>
    \A k \in 1..Len(sessions) :
      LET s == sessions[k]
          al == aligned[s]
      IN  /\ Len(al.a) = Cardinality(origA[s])
          /\ \A j \in 1..Len(al.a) :
               LET a0 == al.a[j]
                   b0 == al.b[j]
               IN  /\ a0 \in origA[s]
                   /\ b0 \in origB[s]
                   /\ \E r \in storeA[s] : r.Name = a0.Name
                   /\ \E r \in storeB[s] : r.Name = b0.Name
                   /\ \A r \in storeA[s] :
                        r.Name = a0.Name => r.ReqTs = b0.ReqTs /\ r.RespTs = b0.RespTs
                   /\ \A r \in storeB[s] :
                        r.Name = b0.Name => r.ReqTs = a0.ReqTs /\ r.RespTs = a0.RespTs

\* A successful mock-assert run over two sessions, one of them with two pairs.
C11_Witness ==
  /\ MockSucceeded
  /\ Len(sessions) = 2
  /\ \E s \in DOMAIN aligned : Len(aligned[s].a) = 2
  /\ storeA # origA
  /\ storeB # origB

\* The program was started a second time after a successful mock-assert run.
Reran == \E k \in 1..Len(ops) : ops[k].op = "rerun"

\* The ways a run ends that no failing store or file operation explains.
LogicalErrs == {"sessions", "no_sessions", "cardinality", "identity"}

\* C12: a second mock-assert run on the result of a successful one does not fail
\* (no session, cardinality or identity mismatch: it can only end early when a
\* store or file operation fails), and when it has succeeded every test case of
\* both roots has its original request and response timestamp again.
C12_SecondRunRestores ==
  (Reran /\ pc = "done") =>
    /\ err \notin LogicalErrs
    /\ err = "none" =>
         /\ exitCode = 0
         /\ \A s \in DOMAIN origA :
              \A q \in origA[s] : \E r \in storeA[s] :
                r.Name = q.Name /\ r.ReqTs = q.ReqTs /\ r.RespTs = q.RespTs
         /\ \A s \in DOMAIN origB :
              \A q \in origB[s] : \E r \in storeB[s] :
                r.Name = q.Name /\ r.ReqTs = q.ReqTs /\ r.RespTs = q.RespTs
         /\ storeA = origA
         /\ storeB = origB

\* The second run succeeded on two sessions, one of them with two pairs, in the
\* variant that orders root B by a header both of its records lack.
C12_Witness ==
  /\ Reran
  /\ MockSucceeded
  /\ variant = 1
  /\ Len(sessions) = 2
  /\ \E s \in DOMAIN aligned :
       /\ Len(aligned[s].b) = 2
       /\ aligned[s].b[1].Key = aligned[s].b[2].Key

\* The records of coll without their timestamps.
WithoutTimestamps(coll) == {[Name |-> r.Name, Key |-> r.Key] : r \in coll}

\* The store is the store orig but for the timestamps of its records.
SameButTimestamps(store, orig) ==
  /\ DOMAIN store = DOMAIN orig
  /\ \A s \in DOMAIN store :
       /\ Cardinality(store[s]) = Cardinality(orig[s])
       /\ WithoutTimestamps(store[s]) = WithoutTimestamps(orig[s])

\* C13: at every point of a test-assert run, whatever its outcome, every test-case
\* record and every fixture file of both roots is as before the run and there is
\* no temporary file; at every point of a mock-assert run the records of both
\* roots are those before the run but for their request and response timestamps
\* (same sessions, same number of records, same names and headers).
C13_OnlyTimestampsAndFixturesChange ==
  /\ mode = "test" =>
       /\ storeA = origA
       /\ storeB = origB
       /\ fileA = origFileA
       /\ fileB = origFileB
       /\ ~temp.exists
  /\ SameButTimestamps(storeA, origA)
  /\ SameButTimestamps(storeB, origB)
  /\ DOMAIN fileA = DOMAIN origFileA
  /\ DOMAIN fileB = DOMAIN origFileB

\* A mock-assert run has ended, with or without an error, after it rewrote a
\* record of root B that carries a Keploy-Test-Id header.
C13_Witness ==
  /\ mode = "mock"
  /\ pc = "done"
  /\ \E s \in DOMAIN storeB : \E r \in storeB[s] : r.Key # <<>> /\ r \notin origB[s]
  /\ storeA # origA

\* The errors of a failed UpdateTestCase.
PersistErrs == {"updateA", "updateB"}

\* The record named n of root A (root B), session s, carries the timestamps the
\* record named m of the other root had before the run.
CarriesA(s, n, m) ==
  /\ Rec(storeA[s], n).ReqTs = Rec(origB[s], m).ReqTs
  /\ Rec(storeA[s], n).RespTs = Rec(origB[s], m).RespTs

CarriesB(s, n, m) ==
  /\ Rec(storeB[s], n).ReqTs = Rec(origA[s], m).ReqTs
  /\ Rec(storeB[s], n).RespTs = Rec(origA[s], m).RespTs

\* C14: when a mock-assert run has ended because a test-case update or a step of
\* the fixture swap failed in session k, the exit status is 1, every update that
\* succeeded is still in its store, and every session before k is fully swapped
\* in both roots: all its records carry the other root's timestamps and its two
\* fixture files are exchanged.
C14_NoRollback ==
  (mode = "mock" /\ pc = "done" /\ err \in PersistErrs \cup SwapErrs) =>
    /\ exitCode = 1
    /\ AtSession
    /\ \A k \in 1..(si - 1) :
         /\ Cardinality(storeA[sessions[k]]) = Cardinality(origA[sessions[k]])
         /\ Cardinality(storeB[sessions[k]]) = Cardinality(origB[sessions[k]])
         /\ AllExchangedA(sessions[k])
         /\ AllExchangedB(sessions[k])
    /\ \A n \in 1..Len(ops) :
         /\ ops[n].op = "updA" => CarriesA(ops[n].s, ops[n].a, ops[n].b)
         /\ ops[n].op = "updB" => CarriesB(ops[n].s, ops[n].b, ops[n].a)

\* The second session failed, in an update or in the swap, after a first session
\* with test cases.
C14_Witness ==
  /\ mode = "mock"
  /\ pc = "done"
  /\ err \in PersistErrs \cup SwapErrs
  /\ si = 2
  /\ storeA[sessions[1]] # {}
  /\ \E n \in 1..Len(ops) : ops[n].op = "updA" /\ ops[n].s = sessions[2]

\* The matcher answered matched for every pair of session s submitted so far.
AllMatched(s) == OpsOf(s, {"match_diff"}) = <<>>

\* compareTestCases ran its session loop to the end and returned its verdict: no
\* listing or store error, no session or cardinality mismatch.
ComparedToTheEnd == mode = "test" /\ pc = "done" /\ err \in {"none", "not_equal"}

\* The run was a test-assert run on a reconciled session list and neither a
\* listing or store error nor a cardinality mismatch ended it.
TestAssertUndisturbed ==
  /\ mode = "test"
  /\ pc = "done"
  /\ reconLog.msg = "none"
  /\ err \notin {"list1", "list2", "sessions", "read", "cardinality"}

\* C15 as stated: for every reconciled session list, the empty one included, a
\* test-assert run without store errors and cardinality mismatches exits with
\* status 0 exactly when the matcher answered matched for every pair.
C15_VerdictIffAllMatched ==
  TestAssertUndisturbed =>
    (exitCode = 0 <=> \A k \in 1..Len(sessions) : AllMatched(sessions[k]))

\* C15: for every reconciled session list that is not empty, sessions without test
\* cases included, a test-assert run without store errors and cardinality
\* mismatches exits with status 0 exactly when the matcher answered matched for
\* every pair of every session; in the pair loop the session verdict is the AND of
\* the session's pair verdicts so far and the overall verdict the AND of the
\* verdicts of the sessions done.  On the empty list nothing is compared: variant
\* 1 exits with status 1, variant 2 with status 0.
C15_VerdictIffAllMatchedNonEmpty ==
  /\ (TestAssertUndisturbed /\ Len(sessions) > 0) =>
       /\ ComparedToTheEnd
       /\ exitCode \in {0, 1}
       /\ exitCode = 0 <=> \A k \in 1..Len(sessions) : AllMatched(sessions[k])
       /\ exitCode = 0 <=> passedOverall
  /\ (TestAssertUndisturbed /\ Len(sessions) = 0) =>
       /\ err = "no_sessions"
       /\ ops = <<>>
       /\ exitCode = IF variant = 1 THEN 1 ELSE 0
  /\ (mode = "test" /\ pc = "match") =>
       /\ testSetRes <=> AllMatched(session)
       /\ passedOverall <=> \A k \in 1..(si - 1) : AllMatched(sessions[k])
  /\ (mode = "test" /\ pc \in {"readA", "readB"}) =>
       (passedOverall <=> \A k \in 1..(si - 1) : AllMatched(sessions[k]))

\* Two sessions, the first without test cases, the second with two pairs of which
\* the first did not match and the second did: the run exits with status 1.
C15_Witness ==
  /\ ComparedToTheEnd
  /\ Len(sessions) = 2
  /\ storeA[sessions[1]] = {}
  /\ exitCode = 1
  /\ \E m, n \in 1..Len(ops) :
       /\ m < n
       /\ ops[m].op = "match_diff"
       /\ ops[n].op = "match_ok"
       /\ ops[m].s = sessions[2]
       /\ ops[n].s = sessions[2]

\* The pair indices session s had submitted to the matcher, in order.
Submitted(s) == IdxOf(s, {"match_ok", "match_diff"})

\* The matcher answered not matched for some pair.
SomePairFailed == \E n \in 1..Len(ops) : ops[n].op = "match_diff"

\* C16: in test-assert mode, once the matcher has answered not matched for a pair,
\* the run ends only with the aggregate verdict or with a later store error or
\* cardinality mismatch, never because of the answer; the pair loop the failing
\* pair is in goes on with the next index, every session left behind had each of
\* its pairs submitted exactly once, and when the aggregate verdict (false, exit
\* status 1) is returned every pair of every session was submitted exactly once.
C16_NotMatchedIsNotFatal ==
  (mode = "test" /\ SomePairFailed) =>
    /\ pc = "done" => err \in {"not_equal", "read", "cardinality"}
    /\ pc = "match" => Submitted(session) = UpTo(i - 1)
    /\ \A k \in 1..Len(sessions) :
         k < si => Submitted(sessions[k]) = UpTo(Cardinality(storeA[sessions[k]]))
    /\ (pc = "done" /\ err = "not_equal") =>
         /\ exitCode = 1
         /\ si = Len(sessions) + 1
         /\ \A k \in 1..Len(sessions) :
              Submitted(sessions[k]) = UpTo(Cardinality(storeA[sessions[k]]))

\* The first pair of the first session did not match; the session's second pair
\* and the pairs of the second session were submitted after it and the verdict
\* was returned.
C16_Witness ==
  /\ ComparedToTheEnd
  /\ Len(sessions) = 2
  /\ Cardinality(storeA[sessions[1]]) = 2
  /\ Cardinality(storeA[sessions[2]]) = 2
  /\ \E n \in 1..Len(ops) :
       /\ ops[n].op = "match_diff"
       /\ ops[n].s = sessions[1]
       /\ ops[n].i = 1
       /\ \A m \in (n + 1)..Len(ops) : ops[m].op # "match_diff"

\* The run ended on a mismatch or a failure it detected and logged: anything but
\* the full success and the empty session list.
DetectedFailure == pc = "done" /\ err \notin {"none", "no_sessions"}

\* C17: a run that has ended exits with status 0 only when nothing failed (every
\* comparison matched, or every swap was completed) and with status 1 when it
\* detected a mismatch or a failure, a session mismatch reported by
\* compareSessions and a failed listing of either root included.
C17_ExitCodeReflectsOutcome ==
  /\ DetectedFailure => exitCode = 1
  /\ (pc = "done" /\ exitCode = 0) => ~DetectedFailure
  /\ (pc = "done" /\ err \in {"sessions", "list1", "list2"}) => exitCode = 1

\* GetNoiseFromConfig was called and has returned.
NoiseLoaded ==
  /\ mode = "test"
  /\ \/ pc \in {"readA", "readB", "match"}
     \/ pc = "done" /\ err \in {"none", "not_equal", "read", "cardinality"}

MatchKinds == {"match_ok", "match_diff"}

\* The mask m is the mask g with the mask ov laid over it: the paths of both, the
\* value of ov where ov has the path, the value of g elsewhere.
IsLeftJoin(m, g, ov) ==
  /\ DOMAIN m = (DOMAIN g) \cup (DOMAIN ov)
  /\ \A p \in DOMAIN ov : m[p] = ov[p]
  /\ \A p \in (DOMAIN g) \ (DOMAIN ov) : m[p] = g[p]

\* C18: the mask handed to the matcher for a pair of session s is the global mask
\* when the override table has no entry for s, and otherwise the global mask
\* left-joined with the entry: global paths the entry lacks keep the global value,
\* every path of the entry has the entry's value.  So an empty entry gives the
\* global mask, an empty global mask gives the entry, and joining the result with
\* the entry once more changes nothing.
C18_MaskIsLeftJoin ==
  \A n \in 1..Len(ops) :
    ops[n].op \in MatchKinds =>
      LET s == ops[n].s
          m == ops[n].m
      IN  IF s \notin DOMAIN testSetNoise
          THEN m = globalNoise
          ELSE /\ IsLeftJoin(m, globalNoise, testSetNoise[s])
               /\ testSetNoise[s] = EmptyMask => m = globalNoise
               /\ globalNoise = EmptyMask => m = testSetNoise[s]
               /\ LeftJoinNoise(m, testSetNoise[s]) = m
               /\ ResolveNoise(m, testSetNoise, s) = m

\* A pair of a session was matched whose override entry and the global mask
\* give one path two different values and each has a path of its own.
C18_Witness ==
  \E n \in 1..Len(ops) :
    /\ ops[n].op \in MatchKinds
    /\ ops[n].s \in DOMAIN testSetNoise
    /\ DOMAIN globalNoise = Paths
    /\ \E p, q \in Paths :
         /\ p # q
         /\ DOMAIN testSetNoise[ops[n].s] = {p}
         /\ testSetNoise[ops[n].s][p] # globalNoise[p]
         /\ ops[n].m[p] = testSetNoise[ops[n].s][p]
         /\ ops[n].m[q] = globalNoise[q]

\* What GetNoiseFromConfig returns for the configuration of this run.
Loaded == GetNoiseFromConfig(variant, config)

\* C19: once loaded, the global mask and the override table stay as loaded through
\* every resolution, and the mask every pair of session s is matched under is the
\* one the loaded global mask and the entry of s alone give, whatever sessions
\* were resolved before s: two sessions with the same entry, or both without one,
\* are matched under the same mask.
C19_ResolutionIsPure ==
  NoiseLoaded =>
    /\ globalNoise = Loaded.global
    /\ testSetNoise = Loaded.testsets
    /\ \A n \in 1..Len(ops) :
         ops[n].op \in MatchKinds =>
           /\ ops[n].m = IF ops[n].s \in DOMAIN Loaded.testsets
                         THEN LeftJoinNoise(Loaded.global, Loaded.testsets[ops[n].s])
                         ELSE Loaded.global
           /\ \A k \in 1..Len(ops) :
                (/\ ops[k].op \in MatchKinds
                 /\ (ops[k].s \in DOMAIN Loaded.testsets) = (ops[n].s \in DOMAIN Loaded.testsets)
                 /\ ops[n].s \in DOMAIN Loaded.testsets =>
                      Loaded.testsets[ops[k].s] = Loaded.testsets[ops[n].s])
                  => ops[k].m = ops[n].m

\* Two sessions were matched one after the other, the first under an override
\* naming a path the global mask lacks, the second without an override.
C19_Witness ==
  /\ pc = "done"
  /\ Len(sessions) = 2
  /\ sessions[1] \in DOMAIN testSetNoise
  /\ sessions[2] \notin DOMAIN testSetNoise
  /\ \E p \in DOMAIN testSetNoise[sessions[1]] : p \notin DOMAIN globalNoise
  /\ globalNoise # EmptyMask
  /\ \E n \in 1..Len(ops) : ops[n].op \in MatchKinds /\ ops[n].s = sessions[2]

\* C20: when the configuration file exists but is malformed the run fails with the
\* configuration error and aborts: GetNoiseFromConfig's error ends the run with
\* exit status 1 and no pair of any session is submitted to the matcher; only a
\* missing configuration file lets the comparison go on, unmasked.
C20_MalformedConfigIsFatal ==
  /\ (config.state = "malformed" /\ NoiseLoaded) =>
       /\ pc = "done"
       /\ err = "config"
       /\ exitCode = 1
  /\ config.state = "malformed" =>
       \A n \in 1..Len(ops) : ops[n].op \notin MatchKinds
  /\ (config.state = "absent" /\ NoiseLoaded) =>
       /\ err # "config"
       /\ globalNoise = EmptyMask
       /\ testSetNoise = NoOverrides

\* The errors that are fatal inside the session loop.
FatalErrs == {"read", "cardinality", "identity"} \cup PersistErrs \cup SwapErrs

\* The kinds of the operations logged for session s, in order.
KindsOf(s) ==
  [j \in 1..Len(SelectSeq(ops, LAMBDA o : o.s = s)) |->
     SelectSeq(ops, LAMBDA o : o.s = s)[j].op]

\* The kinds of the file operations logged for session s, in order.
FileOpsOf(s) == [j \in 1..Len(OpsOf(s, FileKinds)) |-> OpsOf(s, FileKinds)[j].op]

\* The file operations swapFiles had performed when it returned the error e.
FileOpsBefore(e) ==
  CASE e = "swap_read1" -> <<>>
    [] e = "swap_temp" -> <<"fread1">>
    [] e = "swap_wtemp" -> <<"fread1", "tcreate">>
    [] e = "swap_read2" -> <<"fread1", "tcreate">>
    [] e = "swap_write1" -> <<"fread1", "tcreate", "fread2", "fwrite1_failed">>
    [] e = "swap_write2" -> <<"fread1", "tcreate", "fread2", "fwrite1", "fwrite2_failed">>

\* C21: a fatal error in the session loop (a failed store read, a cardinality or
\* identity mismatch, a failed update, a failed step of the fixture swap) ends the
\* run at once with exit status 1: no later session was read, matched, updated or
\* swapped, and the operations on the failing session are exactly those that came
\* before the failing step.
C21_AbortsOnFirstFatalError ==
  err \in FatalErrs =>
    /\ pc = "done"
    /\ exitCode = 1
    /\ AtSession
    /\ \A n \in 1..Len(ops) : \E k \in 1..si : ops[n].s = sessions[k]
    /\ err = "read" => KindsOf(session) \in {<<>>, <<"readA">>}
    /\ err = "cardinality" => KindsOf(session) = <<"readA", "readB">>
    /\ err \in {"identity", "updateA"} =>
         /\ IdxOf(session, {"updA"}) = UpTo(i - 1)
         /\ IdxOf(session, {"updB"}) = UpTo(i - 1)
         /\ FileOpsOf(session) = <<>>
    /\ err = "updateB" =>
         /\ IdxOf(session, {"updA"}) = UpTo(i)
         /\ IdxOf(session, {"updB"}) = UpTo(i - 1)
         /\ FileOpsOf(session) = <<>>
    /\ err \in SwapErrs => FileOpsOf(session) = FileOpsBefore(err)
    /\ mode = "test" => OpsOf(session, MatchKinds) = <<>>

\* The first of two sessions with test cases failed at its second pair: nothing
\* was done on the second session.
C21_Witness ==
  /\ pc = "done"
  /\ err \in {"identity", "updateA", "updateB"}
  /\ Len(sessions) = 2
  /\ si = 1
  /\ i = 2
  /\ storeA[sessions[2]] # {}
  /\ KindsOf(sessions[2]) = <<>>

\* The position of session s in the list sessions.
SessionNo(s) == CHOOSE k \in 1..Len(sessions) : sessions[k] = s

\* C22: the session list the loops run over is strictly ascending in the session
\* identifier, whatever order the roots were listed in; operations are logged
\* session by session in that order; within a session the pair operations come in
\* ascending index; and in mock-assert mode the file operations of a session come
\* after the updates of all its pairs and before any operation on the next
\* session.
C22_SessionsAndPairsInOrder ==
  /\ \A x, y \in 1..Len(sessions) : x < y => StrLess(sessions[x], sessions[y])
  /\ si > 0 => \A k \in 1..Len(sessions) : k > si => KindsOf(sessions[k]) = <<>>
  /\ \A m, n \in 1..Len(ops) :
       m < n =>
         /\ SessionNo(ops[m].s) <= SessionNo(ops[n].s)
         /\ (ops[m].s = ops[n].s /\ ops[m].op \in PairKinds /\ ops[n].op \in PairKinds) =>
              ops[m].i <= ops[n].i
         /\ (ops[m].s = ops[n].s /\ ops[m].op \in FileKinds) => ops[n].op \in FileKinds
  /\ \A k \in 1..Len(sessions) :
       FileOpsOf(sessions[k]) # <<>> =>
         /\ IdxOf(sessions[k], {"updA"}) = UpTo(Cardinality(storeA[sessions[k]]))
         /\ IdxOf(sessions[k], {"updB"}) = UpTo(Cardinality(storeA[sessions[k]]))

\* A successful mock-assert run over two sessions of two pairs each: "ab" was
\* updated and swapped, then "b".
C22_Witness ==
  /\ MockSucceeded
  /\ sessions = <<<<1, 2>>, <<2>>>>
  /\ Cardinality(storeA[sessions[1]]) = 2
  /\ Cardinality(storeA[sessions[2]]) = 2
  /\ \E m, n \in 1..Len(ops) :
       /\ m < n
       /\ ops[m].op = "swapped"
       /\ ops[m].s = sessions[1]
       /\ ops[n].op = "updA"
       /\ ops[n].s = sessions[2]

\* The arrangements the sort of root B's collection of session s may give,
\* depending on the order the store returned the records in.
ArrangementsB(s) ==
  {NamesOf(p) : p \in SortSlice(origB[s], [tc \in origB[s] |-> SortKeyB(variant, tc)])}

\* C23: for every session whose two collections were read, ordered and found of
\* one length (names are unique within each root, headers may be absent or
\* repeated), the arrangement used for pairing is the only one the collection
\* admits: the pairs are a function of the two collections as sets, whatever
\* order the store returned the records in.
C23_PairingIsFunctionOfSets ==
  \A s \in DOMAIN arrangedB :
    Cardinality(origA[s]) = Cardinality(origB[s]) =>
      /\ \A q \in ArrangementsB(s) : q = arrangedB[s]
      /\ \A p \in SortSlice(origA[s], [tc \in origA[s] |-> NameKey(tc)]) :
           s \in DOMAIN aligned => NamesOf(p) = NamesOf(aligned[s].a)

\* C24: when a mock-assert run has failed with an identity mismatch in a session,
\* no test-case record of that session was updated in either root: both
\* collections are as before the run and no update of the session is logged.
C24_IdentityCheckedBeforeAnyUpdate ==
  (pc = "done" /\ err = "identity") =>
    /\ storeA[session] = origA[session]
    /\ storeB[session] = origB[session]
    /\ OpsOf(session, {"updA", "updB"}) = <<>>

\* The request (response) timestamps the two records of pair j of session s hold
\* in the two stores, and those they held before the run.
PersistedReq(s, j) ==
  {Rec(storeA[s], aligned[s].a[j].Name).ReqTs, Rec(storeB[s], aligned[s].b[j].Name).ReqTs}

PersistedResp(s, j) ==
  {Rec(storeA[s], aligned[s].a[j].Name).RespTs, Rec(storeB[s], aligned[s].b[j].Name).RespTs}

OriginalReq(s, j) == {aligned[s].a[j].ReqTs, aligned[s].b[j].ReqTs}

OriginalResp(s, j) == {aligned[s].a[j].RespTs, aligned[s].b[j].RespTs}

\* C25: when a mock-assert run has ended, with success, an identity mismatch or a
\* failed update, for every aligned pair of every session the two request
\* timestamps persisted in the two roots are the two values of before the run, in
\* place or exchanged, and so are the two response timestamps.
C25_TimestampsConserved ==
  (mode = "mock" /\ pc = "done" /\ err \in {"none", "identity"} \cup PersistErrs) =>
    \A s \in DOMAIN aligned :
      Len(aligned[s].a) = Len(aligned[s].b) =>
        \A j \in 1..Len(aligned[s].a) :
          /\ PersistedReq(s, j) = OriginalReq(s, j)
          /\ PersistedResp(s, j) = OriginalResp(s, j)

\* The errors swapFiles returns before its first write to file 1 or file 2.
EarlySwapErrs == {"swap_read1", "swap_temp", "swap_wtemp", "swap_read2"}

\* C26: when swapFiles has returned the error of a step before its first
\* destination write (reading file 1, creating or writing the temporary file,
\* reading file 2), both fixture files hold what they held before.
C26_EarlySwapFailureKeepsFiles ==
  (pc = "done" /\ err \in EarlySwapErrs) =>
    /\ exitCode = 1
    /\ fileA[session] = origFileA[session]
    /\ fileB[session] = origFileB[session]
    /\ OpsOf(session, {"fwrite1", "fwrite1_failed", "swapped", "fwrite2_failed"}) = <<>>

\* Reading file 2 failed, after file 1 was read and copied to the temporary file;
\* the two files differ and file 1 is not empty.
C26_Witness ==
  /\ pc = "done"
  /\ err = "swap_read2"
  /\ content1 = origFileA[session]
  /\ origFileA[session] # <<>>
  /\ origFileA[session] # origFileB[session]
====
